---- MODULE Spec2Model ----
(***************************************************************************)
(* Psankho: the GitHub OAuth proxy (auth server), the useGitHubAuth hook   *)
(* and the App component of the React frontend.                            *)
(*                                                                         *)
(* SpecServer: two runs of the auth server process, each serving requests  *)
(* drawn from small sets, with GitHub's replies chosen nondeterministically.*)
(* SpecHook: one browser tab running the hook against the auth server.     *)
(* SpecFlow: one page load with ?code=... in the URL, the tab and the auth *)
(* server stepped together, with every request eventually answered.        *)
(* SpecRestore: SpecHook from a first page load that finds localStorage as *)
(* an earlier page left it.                                                *)
(* SpecTimer: the hook whose login() redirects from a timer.               *)
(* SpecSearch, SpecStars, SpecSession, SpecPanel, SpecMenu: the App        *)
(* component, each with the controls and the responses of one part of the  *)
(* page: filters and searches, star lookups, signing in and out, the error *)
(* panel, the mobile menu.                                                 *)
(***************************************************************************)
EXTENDS Integers, Sequences, FiniteSets, TLC

VARIABLES env, srv, storage, hook, page, ghost, app, api

vars == <<env, srv, storage, hook, page, ghost, app, api>>

(***************************************************************************)
(* Bounds                                                                  *)
(***************************************************************************)
\* longest redirect_uri a request carries, in characters
MaxUriLen == 1
\* requests a server run completes before the model stops feeding it
MaxServed == 1

(***************************************************************************)
(* JavaScript values                                                       *)
(***************************************************************************)
Undefined == "undefined"
Null == "null"

\* !v for string-like values: undefined, null and '' are falsy
Truthy(v) == v \notin {Undefined, Null, ""}

\* JSON.stringify of an object whose leaves are strings: undefined-valued
\* properties are omitted (res.json on the server, JSON.stringify in the hook)
JsonObject(obj) == [f \in {g \in DOMAIN obj : obj[g] # Undefined} |-> obj[f]]

\* reading a property of a parsed JSON object: a missing property is undefined
Get(obj, f) == IF f \in DOMAIN obj THEN obj[f] ELSE Undefined

(***************************************************************************)
(* Strings that are built or parsed character by character                 *)
(***************************************************************************)
UriChars == {"a", "&", "%"}

RECURSIVE SeqsUpTo(_, _)
SeqsUpTo(S, n) ==
    IF n = 0 THEN {<<>>}
    ELSE LET shorter == SeqsUpTo(S, n - 1)
         IN  shorter \cup {Append(s, c) : s \in {t \in shorter : Len(t) = n - 1}, c \in S}

\* encodeURIComponent, one character: unreserved characters stay, the others
\* become %XX
EncodeChar(c) ==
    CASE c = "&" -> <<"%", "2", "6">>
      [] c = "%" -> <<"%", "2", "5">>
      [] OTHER   -> <<c>>

\* mutant: the parameter value is appended as it is
NoEncoding(s) == s

RECURSIVE encodeURIComponent(_)
encodeURIComponent(s) ==
    IF s = <<>> THEN <<>>
    ELSE EncodeChar(Head(s)) \o encodeURIComponent(Tail(s))

\* decoding of one %XX escape
DecodeHex(a, b) ==
    CASE a = "2" /\ b = "6" -> "&"
      [] a = "2" /\ b = "5" -> "%"
      [] OTHER -> "?"

RECURSIVE decodeURIComponent(_)
decodeURIComponent(s) ==
    IF s = <<>> THEN <<>>
    ELSE IF Head(s) = "%" /\ Len(s) >= 3
    THEN <<DecodeHex(s[2], s[3])>> \o decodeURIComponent(SubSeq(s, 4, Len(s)))
    ELSE <<Head(s)>> \o decodeURIComponent(Tail(s))

(***************************************************************************)
(* Auth server: configuration, requests, GitHub calls and replies          *)
(***************************************************************************)
ClientId == "Iv1.clientid"
ClientSecret == "s3cr3t"

\* process.env after dotenv: each credential is set or missing
Envs == [GITHUB_CLIENT_ID : {Undefined, ClientId},
         GITHUB_CLIENT_SECRET : {Undefined, ClientSecret}]

Runs == {"run1", "run2"}

Codes == {"c1", "c2"}
Tokens == {"gho_t1", "gho_t2"}

\* an optional query parameter: {} when the request has none, {v} otherwise
Absent == {}
Some(v) == {v}
ValueOf(opt) == CHOOSE v \in opt : TRUE

BaseRequest ==
    [kind |-> "none", redirect_uri |-> Absent, code |-> Undefined, authorization |-> <<>>]

AuthGithubRequests ==
    {[BaseRequest EXCEPT !.kind = "GET /auth/github", !.redirect_uri = r] :
        r \in {Absent} \cup {Some(s) : s \in SeqsUpTo(UriChars, MaxUriLen)}}

CallbackRequests ==
    {[BaseRequest EXCEPT !.kind = "POST /auth/github/callback", !.code = c] :
        c \in {Undefined, ""} \cup Codes}

\* the Authorization header as its words between single spaces; <<>> is no header
AuthHeaders ==
    {<<>>, <<"Bearer">>, <<"Bearer", "">>, <<"bearer", "gho_t1">>, <<"Basic", "gho_t1">>,
     <<"Bearer", "gho_t1", "x">>}
    \cup {<<"Bearer", t>> : t \in Tokens}

VerifyRequests ==
    {[BaseRequest EXCEPT !.kind = "GET /auth/verify", !.authorization = a] : a \in AuthHeaders}

HealthRequest == [BaseRequest EXCEPT !.kind = "GET /health"]

Clock == {"2026-01-01T00:00:00.000Z", "2026-01-02T00:00:00.000Z"}

\* the properties the code reads from GitHub's JSON replies
NoFields ==
    [error |-> Undefined, error_description |-> Undefined, access_token |-> Undefined,
     token_type |-> Undefined, scope |-> Undefined, id |-> Undefined, login |-> Undefined,
     name |-> Undefined, avatar_url |-> Undefined]

JsonReply(ok, data) == [kind |-> "json", ok |-> ok, data |-> data]
\* fetch rejected, or the body was not JSON
Thrown == [kind |-> "throws", ok |-> FALSE, data |-> NoFields]

GitHubTokenReplies ==
    {JsonReply(TRUE, [NoFields EXCEPT !.access_token = t, !.token_type = "bearer",
                                      !.scope = "read:user"]) : t \in Tokens}
    \cup {JsonReply(TRUE, [NoFields EXCEPT !.error = "bad_verification_code",
                                           !.error_description = d]) :
            d \in {Undefined, "The code passed is incorrect or expired."}}
    \cup {Thrown}

GitHubUsers ==
    {[NoFields EXCEPT !.id = "1", !.login = "octocat", !.name = "The Octocat",
                      !.avatar_url = "https://avatars/1"],
     [NoFields EXCEPT !.id = "2", !.login = "hubot", !.name = Null,
                      !.avatar_url = "https://avatars/2"]}

GitHubUserReplies ==
    {JsonReply(TRUE, u) : u \in GitHubUsers}
    \cup {JsonReply(FALSE, NoFields), Thrown}

TokenEndpoint == "https://github.com/login/oauth/access_token"
UserEndpoint == "https://api.github.com/user"

NoResponse == [status |-> 0, body |-> [pending |-> TRUE]]

\* the locals of one request handler, with what it sent and received so far;
\* served counts the requests this run completed before the current one
IdleHandler(served) ==
    [pc |-> "idle", req |-> BaseRequest, tokenData |-> NoFields, calls |-> <<>>,
     replies |-> <<>>, resp |-> NoResponse, served |-> served]

\* res.status(s).json(body)
Respond(h, status, body) ==
    [h EXCEPT !.pc = "done", !.resp = [status |-> status, body |-> body]]

\* fetch(url, ...) and the await that follows it
Fetch(h, call, pc) == [h EXCEPT !.pc = pc, !.calls = Append(@, call)]

UserObject(data) ==
    JsonObject([id |-> data.id, login |-> data.login, name |-> data.name,
                avatar_url |-> data.avatar_url])

\* mutant: githubAuthUrl lives at module scope, so each request appends its
\* redirect_uri to what the earlier requests of the run left there
AuthGithubSharedUrl(h, e) ==
    LET redirectUri == h.req.redirect_uri
        given == redirectUri # Absent /\ ValueOf(redirectUri) # <<>>
        param == IF given
                 THEN <<"&", "redirect_uri", "=">> \o encodeURIComponent(ValueOf(redirectUri))
                 ELSE <<>>
        githubAuthUrl ==
            <<"https://github.com/login/oauth/authorize", "?", "client_id", "=",
              e.GITHUB_CLIENT_ID, "&", "scope", "=", "read:user">>
    IN  IF ~Truthy(e.GITHUB_CLIENT_ID)
        THEN Respond(h, 500, [error |-> "Server configuration error: GITHUB_CLIENT_ID not set"])
        ELSE Respond(h, 200,
                 [url |-> IF h.served > 0 THEN githubAuthUrl \o param \o param
                          ELSE githubAuthUrl \o param])

\* mutant: the authorize URL is built with the client secret as well
AuthGithubWithSecret(h, e) ==
    LET redirectUri == h.req.redirect_uri
        given == redirectUri # Absent /\ ValueOf(redirectUri) # <<>>
        githubAuthUrl ==
            <<"https://github.com/login/oauth/authorize", "?", "client_id", "=",
              e.GITHUB_CLIENT_ID, "&", "client_secret", "=", e.GITHUB_CLIENT_SECRET,
              "&", "scope", "=", "read:user">>
    IN  IF ~Truthy(e.GITHUB_CLIENT_ID)
        THEN Respond(h, 500, [error |-> "Server configuration error: GITHUB_CLIENT_ID not set"])
        ELSE Respond(h, 200,
                 [url |-> IF given
                          THEN githubAuthUrl \o <<"&", "redirect_uri", "=">>
                                   \o encodeURIComponent(ValueOf(redirectUri))
                          ELSE githubAuthUrl])

\* GET /auth/github
AuthGithub(h, e) ==
    LET clientId == e.GITHUB_CLIENT_ID
        redirectUri == h.req.redirect_uri
        given == redirectUri # Absent /\ ValueOf(redirectUri) # <<>>
        githubAuthUrl ==
            <<"https://github.com/login/oauth/authorize", "?", "client_id", "=", clientId,
              "&", "scope", "=", "read:user">>
    IN  IF ~Truthy(clientId)
        THEN Respond(h, 500, [error |-> "Server configuration error: GITHUB_CLIENT_ID not set"])
        ELSE Respond(h, 200,
                 [url |-> IF given
                          THEN githubAuthUrl \o <<"&", "redirect_uri", "=">>
                                   \o encodeURIComponent(ValueOf(redirectUri))
                          ELSE githubAuthUrl])

TokenCall(clientId, clientSecret, code) ==
    [endpoint |-> TokenEndpoint, method |-> "POST",
     body |-> [client_id |-> clientId, client_secret |-> clientSecret, code |-> code],
     authorization |-> <<>>]

UserCall(token) ==
    [endpoint |-> UserEndpoint, method |-> "GET",
     body |-> [client_id |-> Undefined, client_secret |-> Undefined, code |-> Undefined],
     authorization |-> <<"Bearer", token>>]

\* mutant: the configuration check uses && where the code has ||
CallbackStartBothMissing(h, e) ==
    LET code == h.req.code
        clientId == e.GITHUB_CLIENT_ID
        clientSecret == e.GITHUB_CLIENT_SECRET
    IN  IF ~Truthy(code)
        THEN Respond(h, 400, [error |-> "Authorization code is required"])
        ELSE IF ~Truthy(clientId) /\ ~Truthy(clientSecret)
        THEN Respond(h, 500, [error |-> "Server configuration error: GitHub credentials not set"])
        ELSE Fetch(h, TokenCall(clientId, clientSecret, code), "awaitToken")

\* POST /auth/github/callback, up to the first await
CallbackStart(h, e) ==
    LET code == h.req.code
        clientId == e.GITHUB_CLIENT_ID
        clientSecret == e.GITHUB_CLIENT_SECRET
    IN  IF ~Truthy(code)
        THEN Respond(h, 400, [error |-> "Authorization code is required"])
        ELSE IF ~Truthy(clientId) \/ ~Truthy(clientSecret)
        THEN Respond(h, 500, [error |-> "Server configuration error: GitHub credentials not set"])
        ELSE Fetch(h, TokenCall(clientId, clientSecret, code), "awaitToken")

\* mutant: the catch block repeats the call that threw, once
CallbackCatchRetry(h) ==
    LET last == h.calls[Len(h.calls)]
    IN  IF Len(h.calls) < 3
        THEN Fetch(h, last, IF last.endpoint = TokenEndpoint THEN "awaitToken" ELSE "awaitUser")
        ELSE Respond(h, 500, [error |-> "Failed to authenticate with GitHub"])

CallbackCatch(h) == Respond(h, 500, [error |-> "Failed to authenticate with GitHub"])

\* mutant: the error branch answers 400 but does not return
CallbackOnTokenNoReturn(h, reply) ==
    LET tokenData == reply.data
        got == [h EXCEPT !.replies = Append(@, reply)]
    IN  IF reply.kind = "throws" THEN CallbackCatch(got)
        ELSE Fetch([got EXCEPT !.tokenData = tokenData],
                   UserCall(tokenData.access_token), "awaitUser")

\* POST /auth/github/callback, from the token reply to the second await
CallbackOnToken(h, reply) ==
    LET tokenData == reply.data
        got == [h EXCEPT !.replies = Append(@, reply)]
    IN  IF reply.kind = "throws" THEN CallbackCatch(got)
        ELSE IF Truthy(tokenData.error)
        THEN Respond(got, 400,
                 [error |-> IF Truthy(tokenData.error_description)
                            THEN tokenData.error_description
                            ELSE "Failed to exchange code for token"])
        ELSE Fetch([got EXCEPT !.tokenData = tokenData],
                   UserCall(tokenData.access_token), "awaitUser")

\* POST /auth/github/callback, from the user reply to the response
CallbackOnUser(h, reply) ==
    LET userData == reply.data
        tokenData == h.tokenData
        got == [h EXCEPT !.replies = Append(@, reply)]
    IN  IF reply.kind = "throws" THEN CallbackCatch(got)
        ELSE Respond(got, 200,
                 JsonObject([access_token |-> tokenData.access_token,
                             token_type |-> tokenData.token_type,
                             scope |-> tokenData.scope])
                 @@ [user |-> UserObject(userData)])

\* mutant: any two-word header passes, whatever its scheme
StartsWithAnyScheme(authHeader) == Len(authHeader) >= 2

\* authHeader.startsWith('Bearer ')
StartsWithBearer(authHeader) == Len(authHeader) >= 2 /\ authHeader[1] = "Bearer"

\* GET /auth/verify, up to the await
VerifyStart(h) ==
    LET authHeader == h.req.authorization
    IN  IF authHeader = <<>> \/ ~StartsWithBearer(authHeader)
        THEN Respond(h, 401, [valid |-> FALSE, error |-> "No token provided"])
        ELSE Fetch(h, UserCall(authHeader[2]), "awaitVerify")

\* GET /auth/verify, from GitHub's reply to the response
VerifyOnUser(h, reply) ==
    LET got == [h EXCEPT !.replies = Append(@, reply)]
    IN  IF reply.kind = "throws"
        THEN Respond(got, 500, [valid |-> FALSE, error |-> "Failed to verify token"])
        ELSE IF reply.ok
        THEN Respond(got, 200, [valid |-> TRUE, user |-> UserObject(reply.data)])
        ELSE Respond(got, 200, [valid |-> FALSE, error |-> "Token expired or invalid"])

\* GET /health
Health(h, e, now) ==
    Respond(h, 200,
        [status |-> "ok", timestamp |-> now,
         github_configured |-> Truthy(e.GITHUB_CLIENT_ID) /\ Truthy(e.GITHUB_CLIENT_SECRET)])

(***************************************************************************)
(* Auth server: actions of one run                                         *)
(***************************************************************************)
\* the state of the App component and the requests it sent to the GitHub API
AppVars == <<app, api>>

HookVars == <<storage, hook, page, ghost, app, api>>

\* a run accepts the next request when it is idle or has answered the last one
Accept(p, req) ==
    /\ srv[p].pc \in {"idle", "done"}
    /\ srv[p].pc = "done" => srv[p].served < MaxServed
    /\ UNCHANGED <<env, HookVars>>

Arrived(p, req) ==
    [IdleHandler(IF srv[p].pc = "done" THEN srv[p].served + 1 ELSE srv[p].served)
        EXCEPT !.req = req]

GetAuthGithub(p) ==
    \E req \in AuthGithubRequests :
        /\ Accept(p, req)
        /\ srv' = [srv EXCEPT ![p] = AuthGithub(Arrived(p, req), env)]

PostCallback(p) ==
    \E req \in CallbackRequests :
        /\ Accept(p, req)
        /\ srv' = [srv EXCEPT ![p] = CallbackStart(Arrived(p, req), env)]

GetVerify(p) ==
    \E req \in VerifyRequests :
        /\ Accept(p, req)
        /\ srv' = [srv EXCEPT ![p] = VerifyStart(Arrived(p, req))]

GetHealth(p) ==
    \E now \in Clock :
        /\ Accept(p, HealthRequest)
        /\ srv' = [srv EXCEPT ![p] = Health(Arrived(p, HealthRequest), env, now)]

TokenReplied(p) ==
    /\ srv[p].pc = "awaitToken"
    /\ \E reply \in GitHubTokenReplies :
        srv' = [srv EXCEPT ![p] = CallbackOnToken(srv[p], reply)]
    /\ UNCHANGED <<env, HookVars>>

UserReplied(p) ==
    /\ srv[p].pc = "awaitUser"
    /\ \E reply \in GitHubUserReplies :
        srv' = [srv EXCEPT ![p] = CallbackOnUser(srv[p], reply)]
    /\ UNCHANGED <<env, HookVars>>

VerifyReplied(p) ==
    /\ srv[p].pc = "awaitVerify"
    /\ \E reply \in GitHubUserReplies :
        srv' = [srv EXCEPT ![p] = VerifyOnUser(srv[p], reply)]
    /\ UNCHANGED <<env, HookVars>>

(***************************************************************************)
(* Auth server, one request served from arrival to response: what a client *)
(* of the server gets back, given GitHub's replies                         *)
(***************************************************************************)
ServeAuthGithub(e, req) == AuthGithub([IdleHandler(0) EXCEPT !.req = req], e).resp

ServeCallback(e, req, tokenReply, userReply) ==
    LET h0 == CallbackStart([IdleHandler(0) EXCEPT !.req = req], e)
        h1 == IF h0.pc = "awaitToken" THEN CallbackOnToken(h0, tokenReply) ELSE h0
        h2 == IF h1.pc = "awaitUser" THEN CallbackOnUser(h1, userReply) ELSE h1
    IN  h2.resp

ServeVerify(req, userReply) ==
    LET h0 == VerifyStart([IdleHandler(0) EXCEPT !.req = req])
        h1 == IF h0.pc = "awaitVerify" THEN VerifyOnUser(h0, userReply) ELSE h0
    IN  h1.resp

(***************************************************************************)
(* useGitHubAuth: localStorage, JSON text, hook state                      *)
(***************************************************************************)
FieldOrder == <<"id", "login", "name", "avatar_url">>

RECURSIVE Members(_, _)
Members(obj, fields) ==
    IF fields = <<>> THEN <<>>
    ELSE (IF Head(fields) \in DOMAIN obj THEN <<Head(fields), obj[Head(fields)]>> ELSE <<>>)
         \o Members(obj, Tail(fields))

\* JSON.stringify(data.user) as the text localStorage keeps: the members in
\* insertion order between braces; JSON.stringify(undefined), stored by
\* setItem, is the text 'undefined'
JSONstringify(data) ==
    IF "user" \in DOMAIN data
    THEN <<"{">> \o Members(data.user, FieldOrder) \o <<"}">>
    ELSE <<"undefined">>

\* JSON.parse throws a SyntaxError on a text that is no JSON value
ParseThrows(text) == text = <<>> \/ Head(text) # "{" \/ text[Len(text)] # "}"

JSONparse(text) ==
    LET n == (Len(text) - 2) \div 2
    IN  [f \in {text[2 * i] : i \in 1..n} |->
            text[1 + 2 * (CHOOSE i \in 1..n : text[2 * i] = f)]]

\* localStorage.getItem of a key that is not set
NoItem == <<>>
EmptyStorage == [github_access_token |-> Null, github_user |-> NoItem]

\* useState initial values
FreshHook == [user |-> Absent, accessToken |-> Null, isLoading |-> TRUE, error |-> Null]

isAuthenticated == Truthy(hook.accessToken)

\* window.location.origin of the frontend
Origin == <<"a">>

\* a fetch of the auth server rejected (server unreachable) or its body is
\* not JSON
FetchFailed == [kind |-> "throws", body |-> [pending |-> TRUE]]
Answer(resp) == [kind |-> "json", body |-> resp.body]

VerifyAnswers(storedToken) ==
    {FetchFailed}
    \cup {Answer(ServeVerify([BaseRequest EXCEPT !.kind = "GET /auth/verify",
                                                 !.authorization = <<"Bearer", storedToken>>],
                             r)) : r \in GitHubUserReplies}

CallbackAnswers(code) ==
    {FetchFailed}
    \cup {Answer(ServeCallback(env,
                               [BaseRequest EXCEPT !.kind = "POST /auth/github/callback",
                                                   !.code = code],
                               t, u)) : t \in GitHubTokenReplies, u \in GitHubUserReplies}

\* req.query.redirect_uri as Express decodes what login() encoded
LoginAnswers ==
    {FetchFailed,
     Answer(ServeAuthGithub(env,
                [BaseRequest EXCEPT !.kind = "GET /auth/github",
                     !.redirect_uri = Some(decodeURIComponent(encodeURIComponent(Origin)))]))}

NoGhost ==
    [login |-> Absent, phase |-> "none", verify |-> "none", rejected |-> FALSE, logout |-> "no"]

\* the mount effects of a page load: initAuth up to its await, then the
\* OAuth callback effect of App up to the await of handleCallback
MountHook(store, code) ==
    LET storedToken == store.github_access_token
        storedUser == store.github_user
        verify == Truthy(storedToken) /\ storedUser # NoItem
        afterInit == [FreshHook EXCEPT !.isLoading = verify]
    IN  IF Truthy(code)
        THEN [afterInit EXCEPT !.isLoading = TRUE, !.error = Null]
        ELSE afterInit

MountPage(store, code) ==
    LET storedToken == store.github_access_token
        storedUser == store.github_user
        verify == Truthy(storedToken) /\ storedUser # NoItem
    IN  [at |-> "app", code |-> code,
         initPc |-> IF verify THEN "verifying" ELSE "done",
         storedToken |-> IF verify THEN storedToken ELSE Null,
         storedUser |-> IF verify THEN storedUser ELSE NoItem,
         cbPc |-> IF Truthy(code) THEN "exchanging" ELSE "none",
         loginPc |-> "idle"]

\* if (data.valid), for the answer of /auth/verify
DataValid(answer) ==
    answer.kind = "json" /\ "valid" \in DOMAIN answer.body /\ answer.body.valid

\* mutant: only the token is removed
RemoveTokenOnly(store) == [store EXCEPT !.github_access_token = Null]

\* localStorage.removeItem of both keys
RemoveItems(store) == EmptyStorage

\* initAuth from the answer of /auth/verify to its end: the storage it leaves
InitAuthStorage(store, answer) ==
    IF answer.kind = "json" /\ ~DataValid(answer)
    THEN RemoveItems(store)
    ELSE store

\* initAuth from the answer of /auth/verify to its end: the hook state
InitAuthHook(hk, pg, answer) ==
    LET valid == DataValid(answer)
        withToken == IF valid THEN [hk EXCEPT !.accessToken = pg.storedToken] ELSE hk
        withUser == IF valid /\ ~ParseThrows(pg.storedUser)
                    THEN [withToken EXCEPT !.user = Some(JSONparse(pg.storedUser))]
                    ELSE withToken
    IN  [withUser EXCEPT !.isLoading = FALSE]

\* handleCallback resolves true: the server answered and data.error is falsy
CallbackSucceeds(answer) == answer.kind = "json" /\ ~Truthy(Get(answer.body, "error"))

\* handleCallback from the answer of /auth/github/callback: the storage
HandleCallbackStorage(store, answer) ==
    IF CallbackSucceeds(answer)
    THEN [github_access_token |-> Get(answer.body, "access_token"),
          github_user |-> JSONstringify(answer.body)]
    ELSE store

\* mutant: the token and the user are stored but not put into the state
HandleCallbackHookStoresOnly(hk, answer) ==
    IF CallbackSucceeds(answer)
    THEN [hk EXCEPT !.isLoading = FALSE]
    ELSE [hk EXCEPT !.error = IF answer.kind = "json" THEN answer.body.error
                              ELSE "Failed to fetch",
                    !.isLoading = FALSE]

\* handleCallback from the answer of /auth/github/callback: the hook state
HandleCallbackHook(hk, answer) ==
    IF CallbackSucceeds(answer)
    THEN [hk EXCEPT !.accessToken = Get(answer.body, "access_token"),
                    !.user = IF "user" \in DOMAIN answer.body
                             THEN Some(answer.body.user) ELSE Absent,
                    !.isLoading = FALSE]
    ELSE [hk EXCEPT !.error = IF answer.kind = "json" THEN answer.body.error
                              ELSE "Failed to fetch",
                    !.isLoading = FALSE]

\* logout: the storage and the hook state it leaves
LogoutStorage(store) == RemoveItems(store)

LogoutHook(hk) == [hk EXCEPT !.accessToken = Null, !.user = Absent]

(***************************************************************************)
(* App component: state                                                    *)
(***************************************************************************)
\* repoStars of a page that fetched no star count yet: no key is set
NoStars == <<>>

\* useState initial values of App
FreshApp ==
    [currentView |-> "hero", activeTab |-> "issues", mobileMenuOpen |-> FALSE,
     searchQuery |-> "", language |-> "", sortBy |-> "created",
     selectedLabels |-> <<"good first issue">>, selectedCategories |-> <<>>,
     popularity |-> "", issues |-> <<>>, totalCount |-> 0, loading |-> FALSE,
     error |-> Null, retryCount |-> 0, repoStars |-> NoStars,
     trendingRepos |-> <<>>, trendingLoading |-> FALSE, trendingError |-> Null,
     trendingLanguage |-> "", trendingPeriod |-> "weekly"]

\* the control or event of a step that is no click in a menu
Event == <<"page", "event">>

\* the page's traffic with the GitHub API: the requests whose response is
\* still to come, in the order of their fetch calls; kind and Authorization
\* header of the requests the last step sent; the repositories of all star
\* lookups sent so far; the tokens logout() dropped; the control or event of
\* the last step; the number of filter changes so far; and the kinds of
\* request whose responses do not arrive while the run lasts, which are sent
\* and not kept

NoTraffic ==
    [pending |-> <<>>, sent |-> <<>>, stars |-> <<>>, loggedOut |-> {}, last |-> Event,
     changes |-> 0, unanswered |-> {}]

(***************************************************************************)
(* useGitHubAuth in one browser tab, the App component left out: actions   *)
(***************************************************************************)
\* the user reloads the page; the promises of the old page are gone
Reload ==
    /\ page.at = "app"
    /\ hook' = MountHook(storage, page.code)
    /\ page' = MountPage(storage, page.code)
    /\ ghost' = [login |-> IF ghost.phase = "loggedIn" THEN ghost.login ELSE Absent,
                 phase |-> IF ghost.phase = "loggedIn" THEN "reloaded" ELSE "none",
                 verify |-> "none",
                 rejected |-> ghost.phase = "loggedIn" /\ ghost.rejected,
                 logout |-> IF ghost.logout = "just" THEN "reloaded" ELSE "no"]
    /\ UNCHANGED <<env, srv, storage, AppVars>>

\* /auth/verify answered, or the fetch failed: initAuth runs to its end
InitAuthResume ==
    /\ page.at = "app"
    /\ page.initPc = "verifying"
    /\ \E answer \in VerifyAnswers(page.storedToken) :
        /\ storage' = InitAuthStorage(storage, answer)
        /\ hook' = InitAuthHook(hook, page, answer)
        /\ ghost' = [ghost EXCEPT
                        !.verify = IF answer.kind = "throws" THEN "threw"
                                   ELSE IF DataValid(answer) THEN "valid"
                                   ELSE "invalid",
                        !.rejected = @ \/ ( /\ ghost.login # Absent
                                            /\ page.storedToken = ValueOf(ghost.login).token
                                            /\ ~DataValid(answer) ),
                        !.logout = IF @ = "just" THEN "no" ELSE @]
    /\ page' = [page EXCEPT !.initPc = "done"]
    /\ UNCHANGED <<env, srv, AppVars>>

\* handleCallback from the answer of its fetch to its end, and App's then(),
\* which removes the code from the URL
CallbackAnswered(answer) ==
    /\ storage' = HandleCallbackStorage(storage, answer)
    /\ hook' = HandleCallbackHook(hook, answer)
    /\ ghost' = IF CallbackSucceeds(answer)
                THEN [login |-> Some([token |-> Get(answer.body, "access_token"),
                                      user |-> hook'.user]),
                      phase |-> "loggedIn", verify |-> ghost.verify,
                      rejected |-> FALSE, logout |-> "no"]
                ELSE [ghost EXCEPT !.logout = IF @ = "just" THEN "no" ELSE @]
    /\ page' = [page EXCEPT !.cbPc = "done", !.code = Null]
    /\ UNCHANGED <<env, srv, AppVars>>

\* /auth/github/callback answered, or the fetch failed
CallbackResume ==
    /\ page.at = "app"
    /\ page.cbPc = "exchanging"
    /\ \E answer \in CallbackAnswers(page.code) : CallbackAnswered(answer)

\* a click on a sign-in button, which is rendered while not authenticated
\* and disabled while loading: login() up to its await
LoginClick ==
    /\ page.at = "app"
    /\ ~isAuthenticated
    /\ ~hook.isLoading
    /\ page.loginPc = "idle"
    /\ page' = [page EXCEPT !.loginPc = "fetching"]
    /\ ghost' = [ghost EXCEPT !.logout = IF @ = "just" THEN "no" ELSE @]
    /\ UNCHANGED <<env, srv, storage, hook, AppVars>>

\* /auth/github answered, or the fetch failed: login() redirects to the URL
\* it got, or records the error
LoginResume ==
    /\ page.at = "app"
    /\ page.loginPc = "fetching"
    /\ \E answer \in LoginAnswers :
        IF answer.kind = "json" /\ "url" \in DOMAIN answer.body
        THEN /\ page' = [page EXCEPT !.at = "github", !.loginPc = "idle",
                                     !.initPc = "done", !.cbPc = "none",
                                     !.storedToken = Null, !.storedUser = NoItem]
             /\ hook' = FreshHook
             /\ ghost' = NoGhost
        ELSE /\ page' = [page EXCEPT !.loginPc = "idle"]
             /\ hook' = [hook EXCEPT !.error = IF answer.kind = "json"
                                               THEN "Failed to get GitHub OAuth URL"
                                               ELSE "Failed to fetch"]
             /\ ghost' = [ghost EXCEPT !.logout = IF @ = "just" THEN "no" ELSE @]
    /\ UNCHANGED <<env, srv, storage, AppVars>>

\* GitHub sends the browser back to the frontend, with ?code=... when the
\* user authorized the app
GitHubRedirect ==
    /\ page.at = "github"
    /\ \E code \in Codes \cup {Null} :
        /\ hook' = MountHook(storage, code)
        /\ page' = MountPage(storage, code)
    /\ ghost' = NoGhost
    /\ UNCHANGED <<env, srv, storage, AppVars>>

\* a click on a logout button, which is rendered while authenticated
Logout ==
    /\ page.at = "app"
    /\ isAuthenticated
    /\ storage' = LogoutStorage(storage)
    /\ hook' = LogoutHook(hook)
    /\ ghost' = [NoGhost EXCEPT !.logout = "just"]
    /\ UNCHANGED <<env, srv, page, AppVars>>

HookInit ==
    /\ storage = EmptyStorage
    /\ hook = MountHook(EmptyStorage, Null)
    /\ page = MountPage(EmptyStorage, Null)
    /\ ghost = NoGhost
    /\ app = FreshApp
    /\ api = NoTraffic

InitServer ==
    /\ env \in Envs
    /\ srv = [p \in Runs |-> IdleHandler(0)]
    /\ HookInit

NextServer ==
    \E p \in Runs :
        \/ GetAuthGithub(p)
        \/ PostCallback(p)
        \/ GetVerify(p)
        \/ GetHealth(p)
        \/ TokenReplied(p)
        \/ UserReplied(p)
        \/ VerifyReplied(p)

SpecServer == InitServer /\ [][NextServer]_vars

\* the auth server is not stepped here: the tab gets its answers from
\* ServeAuthGithub, ServeCallback and ServeVerify
InitHook ==
    /\ env \in Envs
    /\ srv = <<>>
    /\ HookInit

NextHook ==
    \/ Reload
    \/ InitAuthResume
    \/ CallbackResume
    \/ LoginClick
    \/ LoginResume
    \/ GitHubRedirect
    \/ Logout

SpecHook == InitHook /\ [][NextHook]_vars

(***************************************************************************)
(* One page load with ?code=... in the URL: the tab and the auth server    *)
(***************************************************************************)
\* what an earlier session left in localStorage
EarlierSession(token, userData) ==
    [github_access_token |-> token,
     github_user |-> JSONstringify([user |-> UserObject(userData)])]

StoredAtLoad ==
    {EmptyStorage}
    \cup {EarlierSession("gho_t1", u) : u \in GitHubUsers}

\* the server process that answers this tab
Server == "run1"

\* the POST of handleCallback reaches the server, which runs the handler up
\* to its first await
FlowArrive ==
    /\ page.at = "app"
    /\ page.cbPc = "exchanging"
    /\ srv[Server].pc = "idle"
    /\ srv' = [srv EXCEPT ![Server] =
                  CallbackStart([IdleHandler(0) EXCEPT
                                    !.req = [BaseRequest EXCEPT
                                                !.kind = "POST /auth/github/callback",
                                                !.code = page.code]],
                                env)]
    /\ UNCHANGED <<env, HookVars>>

\* the server's response reaches the tab
FlowAnswer ==
    /\ page.at = "app"
    /\ page.cbPc = "exchanging"
    /\ srv[Server].pc = "done"
    /\ CallbackAnswered(Answer(srv[Server].resp))

InitFlow ==
    /\ env \in Envs
    /\ srv = [p \in Runs |-> IdleHandler(0)]
    /\ storage \in StoredAtLoad
    /\ \E code \in Codes :
        /\ hook = MountHook(storage, code)
        /\ page = MountPage(storage, code)
    /\ ghost = NoGhost
    /\ app = FreshApp
    /\ api = NoTraffic

NextFlow ==
    \/ FlowArrive
    \/ TokenReplied(Server)
    \/ UserReplied(Server)
    \/ FlowAnswer
    \/ InitAuthResume
    \/ Logout

\* every request is eventually answered: the POST reaches the server, GitHub
\* answers the server's calls (or they fail), the response reaches the tab
FlowFairness ==
    /\ WF_vars(FlowArrive)
    /\ WF_vars(TokenReplied(Server))
    /\ WF_vars(UserReplied(Server))
    /\ WF_vars(FlowAnswer)

SpecFlow == InitFlow /\ [][NextFlow]_vars /\ FlowFairness

(***************************************************************************)
(* useGitHubAuth with the timer-based login                                *)
(***************************************************************************)
\* delay timers of login() that may be waiting on one page
MaxTimers == 2

\* login() of the timer-based hook, run to its end: the hook state it leaves
TimerLogin(hk, clientId) ==
    IF ~Truthy(clientId)
    THEN [hk EXCEPT !.error = "GitHub Client ID not configured. Check your .env file.",
                    !.isLoading = FALSE]
    ELSE [hk EXCEPT !.isLoading = TRUE]

\* a click on a sign-in button, which is rendered while not authenticated
\* and disabled while loading: login() sets the loading state and starts
\* the timer of 300 ms
TimerLoginClick ==
    /\ page.at = "app"
    /\ ~isAuthenticated
    /\ ~hook.isLoading
    /\ page.timers < MaxTimers
    /\ hook' = TimerLogin(hook, page.clientId)
    /\ page' = [page EXCEPT !.timers = IF Truthy(page.clientId) THEN @ + 1 ELSE @]
    /\ UNCHANGED <<env, srv, storage, ghost, AppVars>>

\* the timer fires: window.location.href = githubAuthUrl, the page is left
TimerFires ==
    /\ page.at = "app"
    /\ page.timers > 0
    /\ page' = [page EXCEPT !.at = "github", !.timers = 0, !.initPc = "done",
                            !.cbPc = "none"]
    /\ hook' = FreshHook
    /\ UNCHANGED <<env, srv, storage, ghost, AppVars>>

\* a page load of the frontend built with or without VITE_GITHUB_CLIENT_ID
InitTimer ==
    /\ env \in Envs
    /\ srv = <<>>
    /\ storage \in StoredAtLoad
    /\ \E code \in Codes \cup {Null}, clientId \in {Undefined, ClientId} :
        /\ hook = MountHook(storage, code)
        /\ page = MountPage(storage, code) @@ [clientId |-> clientId, timers |-> 0]
    /\ ghost = NoGhost
    /\ app = FreshApp
    /\ api = NoTraffic

NextTimer ==
    \/ InitAuthResume
    \/ CallbackResume
    \/ TimerLoginClick
    \/ TimerFires
    \/ Logout

SpecTimer == InitTimer /\ [][NextTimer]_vars

(***************************************************************************)
(* App component: the search query of fetchIssues, and GitHub's search     *)
(***************************************************************************)
\* the option values the model selects among
Labels == {"good first issue", "easy"}
Languages == {"", "python"}
SortOptions == {"created", "updated"}
Popularities == {"", "stars:>1000"}
SearchTexts == {"", "react"}

\* CATEGORIES[i].value: a text of keywords joined by ' OR ', as its terms
\* (two keywords of each of the first two categories)
Word(w) == [k |-> "word", v |-> w]
Or == [k |-> "op", v |-> "OR"]
Categories ==
    {<<Word("AI"), Or, Word("ML")>>, <<Word("database"), Or, Word("data")>>}

\* parts.join(sep), the texts being sequences of the terms that spaces separate
RECURSIVE Join(_, _)
Join(parts, sep) ==
    IF parts = <<>> THEN <<>>
    ELSE IF Len(parts) = 1 THEN parts[1]
    ELSE parts[1] \o sep \o Join(Tail(parts), sep)

\* selectedCategories.join(' OR ')
CategoryQuery(selectedCategories) == Join(selectedCategories, <<Or>>)

\* selectedLabels.map(l => `label:"${l}"`).join(' ')
LabelQuery(selectedLabels) ==
    Join([i \in 1..Len(selectedLabels) |-> <<[k |-> "label", v |-> selectedLabels[i]]>>], <<>>)

\* (text): the parentheses are terms of their own here
Parens(terms) == <<[k |-> "op", v |-> "("]>> \o terms \o <<[k |-> "op", v |-> ")"]>>

\* fetchIssues: the search query built from the filters
BuildQuery(a) ==
    <<[k |-> "is", v |-> "issue"], [k |-> "is", v |-> "open"]>>
    \o (IF Len(a.selectedLabels) > 0 THEN Parens(LabelQuery(a.selectedLabels)) ELSE <<>>)
    \o (IF Truthy(a.language) THEN <<[k |-> "language", v |-> a.language]>> ELSE <<>>)
    \o (IF Len(a.selectedCategories) > 0
        THEN Parens(CategoryQuery(a.selectedCategories)) ELSE <<>>)
    \o (IF Truthy(a.popularity) THEN <<[k |-> "stars", v |-> a.popularity]>> ELSE <<>>)
    \o (IF Truthy(a.searchQuery) THEN <<Word(a.searchQuery)>> ELSE <<>>)

\* the open issues GitHub's index holds, newest first
Index ==
    <<[id |-> 7, repo |-> "octo/beta", labels |-> {"easy"}, language |-> "python",
       words |-> {"data"}, popular |-> FALSE, updated |-> 7],
      [id |-> 6, repo |-> "octo/alpha", labels |-> {"good first issue"}, language |-> "python",
       words |-> {"AI"}, popular |-> TRUE, updated |-> 2],
      [id |-> 5, repo |-> "octo/beta", labels |-> {"good first issue", "easy"},
       language |-> "go", words |-> {"data", "react"}, popular |-> FALSE, updated |-> 6],
      [id |-> 4, repo |-> "octo/alpha", labels |-> {"good first issue"},
       language |-> "python", words |-> {"ML", "database"}, popular |-> TRUE, updated |-> 1],
      [id |-> 3, repo |-> "octo/gamma", labels |-> {"good first issue"}, language |-> "go",
       words |-> {"react"}, popular |-> FALSE, updated |-> 5],
      [id |-> 2, repo |-> "octo/beta", labels |-> {"good first issue"}, language |-> "python",
       words |-> {"data"}, popular |-> FALSE, updated |-> 3],
      [id |-> 1, repo |-> "octo/delta", labels |-> {"good first issue"}, language |-> "python",
       words |-> {"AI"}, popular |-> TRUE, updated |-> 4]>>

\* GitHub's search: one term against one issue
TermHolds(t, issue) ==
    CASE t.k = "label" -> t.v \in issue.labels
      [] t.k = "language" -> t.v = issue.language
      [] t.k = "stars" -> issue.popular
      [] t.k = "word" -> t.v \in issue.words
      [] OTHER -> TRUE

\* GitHub's search: the terms a space separates must all hold, OR separates
\* alternatives, parentheses group
RECURSIVE Alternatives(_)
Alternatives(terms) ==
    IF \A i \in 1..Len(terms) : terms[i] # Or THEN <<terms>>
    ELSE LET n == CHOOSE i \in 1..Len(terms) :
                      terms[i] = Or /\ \A j \in 1..(i - 1) : terms[j] # Or
         IN  <<SubSeq(terms, 1, n - 1)>> \o Alternatives(SubSeq(terms, n + 1, Len(terms)))

GroupHolds(terms, issue) ==
    \E i \in 1..Len(Alternatives(terms)) :
        \A j \in 1..Len(Alternatives(terms)[i]) : TermHolds(Alternatives(terms)[i][j], issue)

RECURSIVE Matches(_, _)
Matches(q, issue) ==
    IF q = <<>> THEN TRUE
    ELSE IF Head(q).v = "(" /\ Head(q).k = "op"
    THEN LET n == CHOOSE i \in 2..Len(q) :
                      q[i].v = ")" /\ \A j \in 2..(i - 1) : q[j].v # ")"
         IN  GroupHolds(SubSeq(q, 2, n - 1), issue) /\ Matches(SubSeq(q, n + 1, Len(q)), issue)
    ELSE TermHolds(Head(q), issue) /\ Matches(Tail(q), issue)

\* data.items of GET /search/issues?q=...&sort=...&order=desc
RECURSIVE Sorted(_, _)
Sorted(items, sort) ==
    IF items = {} THEN <<>>
    ELSE LET first == CHOOSE x \in items :
                          \A y \in items : IF sort = "updated" THEN x.updated >= y.updated
                                           ELSE x.id >= y.id
         IN  <<[id |-> first.id, repo |-> first.repo]>> \o Sorted(items \ {first}, sort)

SearchIssues(q, sort) ==
    Sorted({Index[i] : i \in {j \in 1..Len(Index) : Matches(q, Index[j])}}, sort)

(***************************************************************************)
(* App component: requests to the GitHub API, effects, responses           *)
(***************************************************************************)
\* searches of one page that may be waiting for their response
MaxPending == 2
\* filter changes on one page
MaxChanges == 3
\* failed searches after which the model stops clicking Try Again
MaxRetry == 2
\* star lookups of one page
MaxStars == 8

\* issues.slice(0, 5)
StarFetchLimit == 5

\* headers['Authorization'] = `Bearer ${accessToken}`, when accessToken is set
Headers(accessToken) ==
    IF Truthy(accessToken) THEN <<"Bearer", accessToken>> ELSE <<>>

\* a fetch of the GitHub API; tokenThen is the hook's accessToken at the
\* render whose closure made the call
Request(kind, q, sort, repo, authorization, accessToken) ==
    [kind |-> kind, q |-> q, sort |-> sort, repo |-> repo,
     authorization |-> authorization, tokenThen |-> accessToken]

\* fetchIssues: GET /search/issues
IssuesRequest(a, accessToken) ==
    Request("search/issues", BuildQuery(a), a.sortBy, "", Headers(accessToken), accessToken)

\* fetchTrendingRepos: GET /search/repositories
TrendingRequest(a, accessToken) ==
    Request("search/repositories",
            <<[k |-> "created", v |-> a.trendingPeriod]>>
                \o (IF Truthy(a.trendingLanguage)
                    THEN <<[k |-> "language", v |-> a.trendingLanguage]>> ELSE <<>>),
            "stars", "", Headers(accessToken), accessToken)

\* mutant: the star lookup is sent without the token
StarsRequestAnonymous(repoFullName, accessToken) ==
    Request("repos", <<>>, "", repoFullName, <<>>, accessToken)

\* fetchRepoStars: GET /repos/<name>
StarsRequest(repoFullName, accessToken) ==
    Request("repos", <<>>, "", repoFullName, Headers(accessToken), accessToken)

\* the repositories of the issues, each once, in the order of the list
RECURSIVE Repos(_)
Repos(issues) ==
    IF issues = <<>> THEN <<>>
    ELSE LET before == Repos(SubSeq(issues, 1, Len(issues) - 1))
             repo == issues[Len(issues)].repo
         IN  IF \E i \in 1..Len(before) : before[i] = repo THEN before
             ELSE Append(before, repo)

\* the star-fetch effect: reposToFetch, without those whose entry in
\* repoStars is set
ReposToFetch(a) ==
    LET shown == SubSeq(a.issues, 1, IF Len(a.issues) < StarFetchLimit THEN Len(a.issues)
                                     ELSE StarFetchLimit)
    IN  SelectSeq(Repos(shown), LAMBDA repo : repo \notin DOMAIN a.repoStars)

\* the dependencies of fetchIssues (with accessToken) and of fetchTrendingRepos
Filters(a) ==
    <<a.language, a.sortBy, a.selectedLabels, a.selectedCategories, a.popularity, a.searchQuery>>

\* what fetchIssues and fetchTrendingRepos set before their await
FetchingIssues(a) == [a EXCEPT !.loading = TRUE, !.error = Null]
FetchingTrending(a) == [a EXCEPT !.trendingLoading = TRUE, !.trendingError = Null]

\* the requests leave: those of a kind in traffic.unanswered get no response
\* while the page is open and are not followed; stars is the log of the
\* repositories whose star count was requested, sent the kind and the
\* Authorization header of the requests of the step
Sent(traffic, requests) ==
    LET followed == SelectSeq(requests, LAMBDA r : r.kind \notin traffic.unanswered)
        lookups == SelectSeq(followed, LAMBDA r : r.kind = "repos")
    IN  [traffic EXCEPT
            !.pending = @ \o followed,
            !.sent = @ \o [i \in 1..Len(requests) |->
                              <<requests[i].kind, requests[i].authorization>>],
            !.stars = @ \o [i \in 1..Len(lookups) |-> lookups[i].repo]]

\* The effects React runs after the render that follows a state change from
\* a0, with accessToken tok0, to a1 and tok1: the star-fetch effect when one
\* of issues, repoStars (setIssues and setRepoStars always store a new
\* object: newObject) or accessToken changed, the fetch effects when one of
\* their dependencies changed. The result is the state and the traffic.
Effects(a0, tok0, a1, tok1, newObject, traffic) ==
    LET moved == a0.currentView # a1.currentView \/ a0.activeTab # a1.activeTab
                    \/ tok0 # tok1
        starRepos == IF (newObject \/ tok0 # tok1) /\ Len(a1.issues) > 0
                     THEN ReposToFetch(a1) ELSE <<>>
        issuesRun == /\ moved \/ Filters(a0) # Filters(a1)
                     /\ a1.currentView = "app" /\ a1.activeTab = "issues"
        trendingRun == /\ moved \/ a0.trendingLanguage # a1.trendingLanguage
                             \/ a0.trendingPeriod # a1.trendingPeriod
                       /\ a1.currentView = "app" /\ a1.activeTab = "trending"
        a2 == IF issuesRun THEN FetchingIssues(a1) ELSE a1
        a3 == IF trendingRun THEN FetchingTrending(a2) ELSE a2
    IN  [app |-> a3,
         api |-> Sent(traffic,
                    [i \in 1..Len(starRepos) |-> StarsRequest(starRepos[i], tok1)]
                    \o (IF issuesRun THEN <<IssuesRequest(a1, tok1)>> ELSE <<>>)
                    \o (IF trendingRun THEN <<TrendingRequest(a1, tok1)>> ELSE <<>>))]

\* a step of the page ends in the state a1 and the token tok1, then the
\* effects run; control names the control or event of the step
Render(a1, tok1, newObject, traffic, control) ==
    LET r == Effects(app, hook.accessToken, a1, tok1, newObject, traffic)
    IN  /\ Len(SelectSeq(r.api.pending, LAMBDA q : q.kind # "repos")) <= MaxPending
        /\ Len(r.api.stars) <= MaxStars
        /\ app' = r.app
        /\ api' = [r.api EXCEPT !.last = control,
                                !.sent = SubSeq(@, Len(api.sent) + 1, Len(@))]

\* GitHub's answers to a request: ok with the data, 403 (rate limit), or
\* another failure (a status that is not ok, or the fetch rejected)
Outcomes == {"ok", "403", "failed"}

RateLimited ==
    "(403) Rate limit exceeded! GitHub allows 10 requests/minute for unauthenticated users. Sign in with GitHub to get 5,000 requests/hour."

\* data.stargazers_count of GET /repos/<name>, as the text the card shows
Stargazers(repo) == IF repo \in {"octo/alpha", "octo/delta"} THEN "12000" ELSE "40"

\* data.items of GET /search/repositories
HotRepos == <<"octo/alpha", "octo/delta">>

Without(s, n) == SubSeq(s, 1, n - 1) \o SubSeq(s, n + 1, Len(s))

\* fetchIssues from the response of its fetch to its end
IssuesAnswered(a, request, outcome) ==
    IF outcome = "ok"
    THEN [a EXCEPT !.issues = SearchIssues(request.q, request.sort),
                   !.totalCount = Len(SearchIssues(request.q, request.sort)),
                   !.loading = FALSE]
    ELSE [a EXCEPT !.error = IF outcome = "403" THEN RateLimited
                             ELSE "Failed to fetch issues. Please try again.",
                   !.issues = <<>>,
                   !.loading = FALSE]

\* fetchTrendingRepos from the response of its fetch to its end
TrendingAnswered(a, request, outcome) ==
    IF outcome = "ok"
    THEN [a EXCEPT !.trendingRepos = HotRepos, !.trendingLoading = FALSE]
    ELSE [a EXCEPT !.trendingError = IF outcome = "403" THEN RateLimited
                                     ELSE "Failed to fetch trending repos. Please try again.",
                   !.trendingRepos = <<>>,
                   !.trendingLoading = FALSE]

\* fetchRepoStars from the response of its fetch to its end
StarsAnswered(a, request, outcome) ==
    [a EXCEPT !.repoStars = (request.repo :> (IF outcome = "ok" THEN Stargazers(request.repo)
                                              ELSE Null)) @@ @]

AuthVars == <<storage, hook, page, ghost>>

\* the response of a pending request arrives, in any order
ApiAnswered ==
    /\ page.at = "app"
    /\ \E n \in 1..Len(api.pending), outcome \in Outcomes :
        LET request == api.pending[n]
            left == [api EXCEPT !.pending = Without(@, n)]
        IN  CASE request.kind = "search/issues" ->
                    Render(IssuesAnswered(app, request, outcome), hook.accessToken, TRUE, left,
                           Event)
              [] request.kind = "search/repositories" ->
                    Render(TrendingAnswered(app, request, outcome), hook.accessToken, FALSE,
                           left, Event)
              [] OTHER ->
                    Render(StarsAnswered(app, request, outcome), hook.accessToken, TRUE, left,
                           Event)
    /\ UNCHANGED <<env, srv, AuthVars>>

(***************************************************************************)
(* App component: the controls of the page                                 *)
(***************************************************************************)
Links == {"home", "about", "explore", "trending", "resources"}

\* the links of the header navigation
NavLinkClick(a, link) ==
    CASE link = "home" -> [a EXCEPT !.currentView = "hero"]
      [] link = "about" -> [a EXCEPT !.currentView = "about"]
      [] link = "explore" -> [a EXCEPT !.activeTab = "issues", !.currentView = "app"]
      [] link = "trending" -> [a EXCEPT !.currentView = "app", !.activeTab = "trending"]
      [] OTHER -> [a EXCEPT !.currentView = "resources"]

\* mutant: the mobile Explore link leaves the tab as it is
MobileLinkClickKeepsTab(a, link) ==
    CASE link = "home" -> [a EXCEPT !.currentView = "hero", !.mobileMenuOpen = FALSE]
      [] link = "about" -> [a EXCEPT !.currentView = "about", !.mobileMenuOpen = FALSE]
      [] link = "explore" -> [a EXCEPT !.currentView = "app", !.mobileMenuOpen = FALSE]
      [] link = "trending" ->
            [a EXCEPT !.currentView = "app", !.activeTab = "trending", !.mobileMenuOpen = FALSE]
      [] OTHER -> [a EXCEPT !.currentView = "resources", !.mobileMenuOpen = FALSE]

\* the links of the mobile menu
MobileLinkClick(a, link) ==
    CASE link = "home" -> [a EXCEPT !.currentView = "hero", !.mobileMenuOpen = FALSE]
      [] link = "about" -> [a EXCEPT !.currentView = "about", !.mobileMenuOpen = FALSE]
      [] link = "explore" ->
            [a EXCEPT !.activeTab = "issues", !.currentView = "app", !.mobileMenuOpen = FALSE]
      [] link = "trending" ->
            [a EXCEPT !.currentView = "app", !.activeTab = "trending", !.mobileMenuOpen = FALSE]
      [] OTHER -> [a EXCEPT !.currentView = "resources", !.mobileMenuOpen = FALSE]

\* the main content is rendered in the app view, under the menu overlay
InMain(a, tab) == a.currentView = "app" /\ a.activeTab = tab /\ ~a.mobileMenuOpen

\* a click on a navigation link, of the header or of the open mobile menu
LinkClick ==
    /\ page.at = "app"
    /\ \E link \in Links :
        \/ Render(NavLinkClick(app, link), hook.accessToken, FALSE, api, <<"header", link>>)
        \/ /\ app.mobileMenuOpen
           /\ Render(MobileLinkClick(app, link), hook.accessToken, FALSE, api,
                     <<"mobile", link>>)
    /\ UNCHANGED <<env, srv, AuthVars>>

\* the menu button of the header
MenuClick ==
    /\ page.at = "app"
    /\ Render([app EXCEPT !.mobileMenuOpen = ~@], hook.accessToken, FALSE, api,
              <<"header", "menu">>)
    /\ UNCHANGED <<env, srv, AuthVars>>

\* startExploring, the button of the hero view
StartClick ==
    /\ page.at = "app"
    /\ ~app.mobileMenuOpen
    /\ app.currentView = "hero"
    /\ Render([app EXCEPT !.currentView = "app"], hook.accessToken, FALSE, api, Event)
    /\ UNCHANGED <<env, srv, AuthVars>>

\* the tabs of the app view
TabClick ==
    /\ page.at = "app"
    /\ ~app.mobileMenuOpen
    /\ app.currentView = "app"
    /\ \E tab \in {"issues", "trending"} :
          Render([app EXCEPT !.activeTab = tab], hook.accessToken, FALSE, api, Event)
    /\ UNCHANGED <<env, srv, AuthVars>>

\* a pill of the category or label group: the value is removed when it is
\* selected, appended when it is not
Toggle(selected, value) ==
    IF \E i \in 1..Len(selected) : selected[i] = value
    THEN SelectSeq(selected, LAMBDA x : x # value)
    ELSE Append(selected, value)

\* the filter controls of the issues tab
FilterChange ==
    /\ page.at = "app"
    /\ InMain(app, "issues")
    /\ \E a1 \in {[app EXCEPT !.language = v] : v \in Languages}
               \cup {[app EXCEPT !.sortBy = v] : v \in SortOptions}
               \cup {[app EXCEPT !.popularity = v] : v \in Popularities}
               \cup {[app EXCEPT !.searchQuery = v] : v \in SearchTexts}
               \cup {[app EXCEPT !.selectedLabels = Toggle(@, v)] : v \in Labels}
               \cup {[app EXCEPT !.selectedCategories = Toggle(@, v)] : v \in Categories}
               \cup {[app EXCEPT !.selectedLabels = <<>>],
                     [app EXCEPT !.selectedCategories = <<>>]} :
        /\ a1 # app
        /\ api.changes < MaxChanges
        /\ Render(a1, hook.accessToken, FALSE, [api EXCEPT !.changes = @ + 1],
                  Event)
    /\ UNCHANGED <<env, srv, AuthVars>>

\* handleSearch, the submit of the search form, and the Try Again button of
\* the error panel: both call fetchIssues themselves
SearchClick ==
    /\ page.at = "app"
    /\ InMain(app, "issues")
    /\ \/ Render(FetchingIssues(app), hook.accessToken, FALSE,
                 Sent(api, <<IssuesRequest(app, hook.accessToken)>>), Event)
       \/ /\ Truthy(app.error)
          /\ app.retryCount < MaxRetry
          /\ Render(FetchingIssues([app EXCEPT !.retryCount = @ + 1]), hook.accessToken, FALSE,
                    Sent(api, <<IssuesRequest(app, hook.accessToken)>>), Event)
    /\ UNCHANGED <<env, srv, AuthVars>>

SignInControls == {"header", "mobile", "panel"}

\* the sign-in buttons that can be clicked: the header's and the mobile
\* menu's are rendered while not authenticated and disabled while
\* authLoading, the error panel's is rendered after two retries
SignInEnabled(control) ==
    CASE control = "header" -> ~isAuthenticated /\ ~hook.isLoading
      [] control = "mobile" -> app.mobileMenuOpen /\ ~isAuthenticated /\ ~hook.isLoading
      [] OTHER -> /\ InMain(app, "issues")
                  /\ Truthy(app.error)
                  /\ app.retryCount >= 2
                  /\ ~isAuthenticated

\* a click on a sign-in button: login() up to its await; two logins in
\* flight are kept as one
SignInClick ==
    /\ page.at = "app"
    /\ \E control \in SignInControls :
        /\ SignInEnabled(control)
        /\ Render(IF control = "mobile" THEN [app EXCEPT !.mobileMenuOpen = FALSE] ELSE app,
                  hook.accessToken, FALSE, api, <<control, "signin">>)
    /\ page' = [page EXCEPT !.loginPc = "fetching"]
    /\ UNCHANGED <<env, srv, storage, hook, ghost>>

\* a click on a logout button, of the header or of the open mobile menu
LogoutClick ==
    /\ page.at = "app"
    /\ isAuthenticated
    /\ storage' = LogoutStorage(storage)
    /\ hook' = LogoutHook(hook)
    /\ \/ Render(app, hook'.accessToken, FALSE,
                 [api EXCEPT !.loggedOut = @ \cup {hook.accessToken}], <<"header", "logout">>)
       \/ /\ app.mobileMenuOpen
          /\ Render([app EXCEPT !.mobileMenuOpen = FALSE], hook'.accessToken, FALSE,
                    [api EXCEPT !.loggedOut = @ \cup {hook.accessToken}], <<"mobile", "logout">>)
    /\ UNCHANGED <<env, srv, page, ghost>>

\* /auth/github answered, or the fetch failed: the page leaves for GitHub,
\* or login() records the error
LoginAnswered ==
    /\ page.at = "app"
    /\ page.loginPc = "fetching"
    /\ \E answer \in LoginAnswers :
        IF answer.kind = "json" /\ "url" \in DOMAIN answer.body
        THEN /\ page' = [page EXCEPT !.at = "github", !.loginPc = "idle", !.initPc = "done",
                                     !.cbPc = "none"]
             /\ hook' = hook
             /\ app' = app
             /\ api' = [api EXCEPT !.pending = <<>>, !.sent = <<>>, !.last = Event]
        ELSE /\ page' = [page EXCEPT !.loginPc = "idle"]
             /\ hook' = [hook EXCEPT !.error = IF answer.kind = "json"
                                               THEN "Failed to get GitHub OAuth URL"
                                               ELSE "Failed to fetch"]
             /\ Render(app, hook.accessToken, FALSE, api, Event)
    /\ UNCHANGED <<env, srv, storage, ghost>>

\* GitHub issues a new token for every code it accepts
Issued(answer) ==
    CallbackSucceeds(answer) =>
        Get(answer.body, "access_token")
            \notin api.loggedOut \cup {storage.github_access_token, page.storedToken}

\* the mount-time /auth/verify or the /auth/github/callback of the page is
\* answered: initAuth, or handleCallback and App's then(), run to their end
AuthAnswered ==
    /\ page.at = "app"
    /\ \/ /\ page.initPc = "verifying"
          /\ \E answer \in VerifyAnswers(page.storedToken) :
                /\ storage' = InitAuthStorage(storage, answer)
                /\ hook' = InitAuthHook(hook, page, answer)
                /\ page' = [page EXCEPT !.initPc = "done"]
                /\ Render(app, hook'.accessToken, FALSE, api, Event)
       \/ /\ page.cbPc = "exchanging"
          /\ \E answer \in CallbackAnswers(page.code) :
                /\ Issued(answer)
                /\ storage' = HandleCallbackStorage(storage, answer)
                /\ hook' = HandleCallbackHook(hook, answer)
                /\ page' = [page EXCEPT !.cbPc = "done", !.code = Null]
                /\ Render(IF CallbackSucceeds(answer) THEN [app EXCEPT !.currentView = "app"]
                          ELSE app,
                          hook'.accessToken, FALSE, api, Event)
    /\ UNCHANGED <<env, srv, ghost>>

\* a page load: localStorage as it was left, the code GitHub sent, if any
InitApp ==
    /\ env \in Envs
    /\ srv = <<>>
    /\ storage \in StoredAtLoad
    /\ \E code \in Codes \cup {Null} :
        /\ hook = MountHook(storage, code)
        /\ page = MountPage(storage, code)
    /\ ghost = NoGhost
    /\ app = FreshApp

(***************************************************************************)
(* App component: specifications                                           *)
(***************************************************************************)
\* the issues tab of a visitor who is not signed in: filters, searches, star
\* lookups
InitSearch ==
    /\ InitApp
    /\ env = [GITHUB_CLIENT_ID |-> ClientId, GITHUB_CLIENT_SECRET |-> ClientSecret]
    /\ storage = EmptyStorage
    /\ page.code = Null
    /\ api = [NoTraffic EXCEPT !.unanswered = {"repos", "search/repositories"}]

NextSearch ==
    \/ StartClick
    \/ FilterChange
    \/ ApiAnswered

SpecSearch == InitSearch /\ [][NextSearch]_vars

\* One visitor without a session opens the issues tab with the filters of
\* the start and leaves them alone: the search, the star lookups of its
\* result and their responses.
InitStars ==
    /\ InitApp
    /\ env = [GITHUB_CLIENT_ID |-> ClientId, GITHUB_CLIENT_SECRET |-> ClientSecret]
    /\ storage = EmptyStorage
    /\ page.code = Null
    /\ api = [NoTraffic EXCEPT !.unanswered = {"search/repositories"}]

NextStars ==
    \/ StartClick
    \/ ApiAnswered

SpecStars == InitStars /\ [][NextStars]_vars

\* A page load with or without an earlier session and with or without a
\* code of GitHub: signing in and out while the issues and the trending tab
\* send their requests.
InitSession ==
    /\ InitApp
    /\ env = [GITHUB_CLIENT_ID |-> ClientId, GITHUB_CLIENT_SECRET |-> ClientSecret]
    /\ api = [NoTraffic EXCEPT !.unanswered = {"repos"}]

NextSession ==
    \/ StartClick
    \/ TabClick
    \/ ApiAnswered
    \/ AuthAnswered
    \/ LogoutClick

SpecSession == InitSession /\ [][NextSession]_vars

\* A page load with or without an earlier session and with or without a
\* code of GitHub: the searches of the issues tab fail and are tried again
\* while the visitor may sign in.
InitPanel ==
    /\ InitApp
    /\ env = [GITHUB_CLIENT_ID |-> ClientId, GITHUB_CLIENT_SECRET |-> ClientSecret]
    /\ api = [NoTraffic EXCEPT !.unanswered = {"repos", "search/repositories"}]

NextPanel ==
    \/ StartClick
    \/ SearchClick
    \/ ApiAnswered
    \/ AuthAnswered
    \/ SignInClick
    \/ LoginAnswered

SpecPanel == InitPanel /\ [][NextPanel]_vars

\* A page load with or without an earlier session and with or without a
\* code of GitHub: the header, the mobile menu and their controls; the
\* responses of the GitHub API do not arrive while the run lasts.
InitMenu ==
    /\ InitApp
    /\ env = [GITHUB_CLIENT_ID |-> ClientId, GITHUB_CLIENT_SECRET |-> ClientSecret]
    /\ api = [NoTraffic EXCEPT
                 !.unanswered = {"repos", "search/repositories", "search/issues"}]

NextMenu ==
    \/ MenuClick
    \/ LinkClick
    \/ SignInClick
    \/ LoginAnswered
    \/ LogoutClick
    \/ AuthAnswered

SpecMenu == InitMenu /\ [][NextMenu]_vars

(***************************************************************************)
(* Auth server: properties                                                 *)
(***************************************************************************)
KindAuthGithub == "GET /auth/github"
KindCallback == "POST /auth/github/callback"
KindVerify == "GET /auth/verify"
KindHealth == "GET /health"

Answered(h) == h.pc = "done"

CallsTo(h, endpoint) == {i \in 1..Len(h.calls) : h.calls[i].endpoint = endpoint}

HasField(resp, f) == f \in DOMAIN resp.body

\* C1: the three auth endpoints are stateless: two answered requests, in the
\* same run or in two runs with different histories, that are the same
\* request and drew the same replies from GitHub, got the same response.
C1_Stateless ==
    \A p, q \in Runs :
        ( /\ Answered(srv[p]) /\ Answered(srv[q])
          /\ srv[p].req.kind \in {KindAuthGithub, KindCallback, KindVerify}
          /\ srv[p].req = srv[q].req
          /\ srv[p].replies = srv[q].replies )
        => srv[p].resp = srv[q].resp

C1_Witness ==
    /\ Answered(srv["run1"]) /\ Answered(srv["run2"])
    /\ srv["run1"].req.kind = KindAuthGithub
    /\ srv["run1"].req = srv["run2"].req
    /\ srv["run1"].req.redirect_uri = Some(<<"&">>)
    /\ srv["run1"].served = 0 /\ srv["run2"].served = 1
    /\ srv["run1"].resp.status = 200

Failed(reply) == reply.kind = "throws" \/ Truthy(reply.data.error)

IsErrorResponse(resp) ==
    /\ resp.status >= 400
    /\ HasField(resp, "error")

\* C2: no retry: one request causes at most one call to the token endpoint
\* and one to the user endpoint (verify: no token call; authorize URL and
\* health: no call), and a call that threw or that GitHub answered with an
\* error is the last call of its request, which is answered with an error.
C2_NoRetry ==
    \A p \in Runs :
        LET h == srv[p]
        IN  /\ Cardinality(CallsTo(h, TokenEndpoint)) <= 1
            /\ Cardinality(CallsTo(h, UserEndpoint)) <= 1
            /\ Len(h.calls) = Cardinality(CallsTo(h, TokenEndpoint))
                                + Cardinality(CallsTo(h, UserEndpoint))
            /\ h.req.kind = KindVerify => CallsTo(h, TokenEndpoint) = {}
            /\ h.req.kind \in {KindAuthGithub, KindHealth} => h.calls = <<>>
            /\ \A i \in 1..Len(h.replies) :
                 Failed(h.replies[i]) =>
                    /\ Answered(h)
                    /\ IsErrorResponse(h.resp)
                    /\ Len(h.calls) = i

C2_Witness ==
    /\ Answered(srv["run1"])
    /\ srv["run1"].req.kind = KindCallback
    /\ Len(srv["run1"].replies) = 2
    /\ srv["run1"].replies[2] = Thrown
    /\ Len(srv["run1"].calls) = 2
    /\ srv["run1"].resp.status = 500

Range(f) == {f[x] : x \in DOMAIN f}

\* whether a response body carries the client secret in any of its values
BodyHasSecret(body) ==
    \E f \in DOMAIN body :
        CASE f \in {"valid", "github_configured", "pending"} -> FALSE
          [] f = "url" -> ClientSecret \in Range(body[f])
          [] f = "user" -> ClientSecret \in Range(body[f])
          [] OTHER -> body[f] = ClientSecret

CallHasSecretOutsideBody(call) ==
    \/ ClientSecret \in Range(call.authorization)
    \/ call.body.client_id = ClientSecret
    \/ call.body.code = ClientSecret
    \/ call.endpoint = ClientSecret

\* C3: the client secret is sent only as client_secret in the body of the
\* request to the access_token endpoint, and no response of any endpoint
\* carries it.
C3_SecretStaysOnServer ==
    \A p \in Runs :
        LET h == srv[p]
        IN  /\ \A i \in 1..Len(h.calls) :
                 /\ ~CallHasSecretOutsideBody(h.calls[i])
                 /\ h.calls[i].body.client_secret = ClientSecret
                        => h.calls[i].endpoint = TokenEndpoint
            /\ ~BodyHasSecret(h.resp.body)

C3_Witness ==
    /\ env.GITHUB_CLIENT_SECRET = ClientSecret
    /\ Answered(srv["run1"])
    /\ srv["run1"].req.kind = KindCallback
    /\ Len(srv["run1"].calls) = 2
    /\ srv["run1"].calls[1].body.client_secret = ClientSecret
    /\ srv["run1"].resp.status = 200
    /\ Answered(srv["run2"])
    /\ srv["run2"].req.kind = KindAuthGithub
    /\ srv["run2"].resp.status = 200

UserFields == {"id", "login", "name", "avatar_url"}

\* C4 (as claimed): a response with an access_token carries the user that a
\* successful lookup at the user endpoint returned for that token.
C4_TokenOnlyWithLookedUpUser ==
    \A p \in Runs :
        LET h == srv[p]
        IN  (Answered(h) /\ h.req.kind = KindCallback /\ HasField(h.resp, "access_token"))
            => /\ HasField(h.resp, "user")
               /\ \E i \in 1..Len(h.replies) :
                    /\ h.calls[i].endpoint = UserEndpoint
                    /\ h.calls[i].authorization = <<"Bearer", h.resp.body.access_token>>
                    /\ h.replies[i].kind = "json"
                    /\ h.replies[i].ok
                    /\ \A f \in UserFields :
                         Get(h.resp.body.user, f) = h.replies[i].data[f]

\* C5: a token-endpoint error is answered 400 with an error message and no
\* access_token, without a call to the user endpoint; a thrown exchange or
\* user lookup is answered 500 'Failed to authenticate with GitHub'.
C5_CallbackErrors ==
    \A p \in Runs :
        LET h == srv[p]
        IN  h.req.kind = KindCallback =>
            /\ (Len(h.replies) >= 1 /\ h.replies[1].kind = "json"
                    /\ Truthy(h.replies[1].data.error))
               => /\ Answered(h)
                  /\ h.resp.status = 400
                  /\ HasField(h.resp, "error")
                  /\ Truthy(h.resp.body.error)
                  /\ ~HasField(h.resp, "access_token")
                  /\ CallsTo(h, UserEndpoint) = {}
            /\ (\E i \in 1..Len(h.replies) : h.replies[i].kind = "throws")
               => /\ Answered(h)
                  /\ h.resp.status = 500
                  /\ h.resp.body = [error |-> "Failed to authenticate with GitHub"]

C5_Witness ==
    /\ Answered(srv["run1"])
    /\ srv["run1"].req.kind = KindCallback
    /\ Len(srv["run1"].replies) = 1
    /\ Truthy(srv["run1"].replies[1].data.error)
    /\ srv["run1"].replies[1].data.error_description = Undefined
    /\ srv["run1"].resp.status = 400
    /\ Answered(srv["run2"])
    /\ srv["run2"].req.kind = KindCallback
    /\ Len(srv["run2"].replies) = 2
    /\ srv["run2"].replies[2].kind = "throws"
    /\ srv["run2"].resp.status = 500

\* C6: a callback without a code is answered 400 'Authorization code is
\* required', one with a code while a credential is unset is answered 500,
\* and neither makes a request to GitHub.
C6_CallbackPreconditions ==
    \A p \in Runs :
        LET h == srv[p]
        IN  h.req.kind = KindCallback =>
            /\ ~Truthy(h.req.code)
               => /\ Answered(h)
                  /\ h.resp.status = 400
                  /\ h.resp.body = [error |-> "Authorization code is required"]
                  /\ h.calls = <<>>
            /\ (Truthy(h.req.code)
                    /\ (env.GITHUB_CLIENT_ID = Undefined \/ env.GITHUB_CLIENT_SECRET = Undefined))
               => /\ Answered(h)
                  /\ h.resp.status = 500
                  /\ HasField(h.resp, "error")
                  /\ h.calls = <<>>

C6_Witness ==
    /\ env.GITHUB_CLIENT_ID = ClientId
    /\ env.GITHUB_CLIENT_SECRET = Undefined
    /\ Answered(srv["run1"])
    /\ srv["run1"].req.kind = KindCallback
    /\ srv["run1"].req.code = "c1"
    /\ srv["run1"].resp.status = 500
    /\ Answered(srv["run2"])
    /\ srv["run2"].req.kind = KindCallback
    /\ srv["run2"].req.code = Undefined
    /\ srv["run2"].resp.status = 400

\* the header reads 'Bearer <token> ...'
IsBearer(authHeader) == Len(authHeader) >= 2 /\ Head(authHeader) = "Bearer"

\* C7: verify answers valid:true, with GitHub's id, login, name and
\* avatar_url, exactly when the header is 'Bearer <token>' and GitHub's user
\* endpoint answered OK for that token; no Bearer header: 401, valid:false,
\* no GitHub call; non-OK answer: valid:false; thrown call: 500, valid:false.
C7_Verify ==
    \A p \in Runs :
        LET h == srv[p]
            hdr == h.req.authorization
        IN  (h.req.kind = KindVerify /\ Answered(h)) =>
            /\ HasField(h.resp, "valid")
            /\ ~IsBearer(hdr)
               => /\ h.resp.status = 401
                  /\ h.resp.body.valid = FALSE
                  /\ h.calls = <<>>
            /\ IsBearer(hdr)
               => /\ Len(h.calls) = 1 /\ Len(h.replies) = 1
                  /\ h.calls[1].endpoint = UserEndpoint
                  /\ h.calls[1].authorization = <<"Bearer", hdr[2]>>
            /\ h.resp.body.valid = TRUE
               <=> (IsBearer(hdr) /\ h.replies[1].kind = "json" /\ h.replies[1].ok)
            /\ h.resp.body.valid = TRUE
               => /\ h.resp.status = 200
                  /\ HasField(h.resp, "user")
                  /\ \A f \in UserFields : Get(h.resp.body.user, f) = h.replies[1].data[f]
            /\ (IsBearer(hdr) /\ h.replies[1].kind = "throws")
               => h.resp.status = 500 /\ h.resp.body.valid = FALSE

C7_Witness ==
    /\ Answered(srv["run1"])
    /\ srv["run1"].req.kind = KindVerify
    /\ srv["run1"].req.authorization = <<"Bearer", "gho_t2">>
    /\ srv["run1"].resp.body.valid = TRUE
    /\ srv["run1"].resp.body.user.login = "hubot"
    /\ Answered(srv["run2"])
    /\ srv["run2"].req.kind = KindVerify
    /\ srv["run2"].req.authorization = <<"Basic", "gho_t1">>
    /\ srv["run2"].resp.status = 401

\* How the receiver of the authorize URL reads it: the text after '?' is cut
\* at every '&', each piece at its first '=', and %XX is decoded.
RECURSIVE SplitOn(_, _)
SplitOn(s, sep) ==
    IF \A i \in 1..Len(s) : s[i] # sep THEN <<s>>
    ELSE LET k == CHOOSE i \in 1..Len(s) : s[i] = sep /\ \A j \in 1..(i - 1) : s[j] # sep
         IN  <<SubSeq(s, 1, k - 1)>> \o SplitOn(SubSeq(s, k + 1, Len(s)), sep)

QueryParams(url) == SplitOn(SubSeq(url, 3, Len(url)), "&")

\* the decoded values the URL gives for a parameter name
ParamValues(url, name) ==
    LET ps == QueryParams(url)
    IN  {decodeURIComponent(SubSeq(ps[i], 3, Len(ps[i]))) :
            i \in {j \in 1..Len(ps) : Len(ps[j]) >= 2 /\ ps[j][1] = name /\ ps[j][2] = "="}}

Supplied(req) == req.redirect_uri # Absent /\ ValueOf(req.redirect_uri) # <<>>

\* C8: with GITHUB_CLIENT_ID set, GET /auth/github answers {url}: the GitHub
\* authorize endpoint with that client_id, scope read:user, and a
\* redirect_uri parameter if and only if the request supplied one, which
\* decodes to the supplied value; with it unset, 500 with an error and no url.
C8_AuthorizeUrl ==
    \A p \in Runs :
        LET h == srv[p]
        IN  (h.req.kind = KindAuthGithub /\ Answered(h)) =>
            /\ env.GITHUB_CLIENT_ID = Undefined
               => /\ h.resp.status = 500
                  /\ HasField(h.resp, "error")
                  /\ ~HasField(h.resp, "url")
            /\ env.GITHUB_CLIENT_ID # Undefined
               => /\ h.resp.status = 200
                  /\ DOMAIN h.resp.body = {"url"}
                  /\ LET url == h.resp.body.url
                     IN  /\ url[1] = "https://github.com/login/oauth/authorize"
                         /\ url[2] = "?"
                         /\ ParamValues(url, "client_id") = {<<env.GITHUB_CLIENT_ID>>}
                         /\ ParamValues(url, "scope") = {<<"read:user">>}
                         /\ ParamValues(url, "redirect_uri")
                              = IF Supplied(h.req) THEN {ValueOf(h.req.redirect_uri)} ELSE {}
                         /\ Len(QueryParams(url)) = IF Supplied(h.req) THEN 3 ELSE 2

C8_Witness ==
    /\ env.GITHUB_CLIENT_ID = ClientId
    /\ Answered(srv["run1"])
    /\ srv["run1"].req.kind = KindAuthGithub
    /\ srv["run1"].req.redirect_uri = Some(<<"&">>)
    /\ srv["run1"].resp.body.url[Len(srv["run1"].resp.body.url)] = "6"
    /\ Answered(srv["run2"])
    /\ srv["run2"].req.kind = KindAuthGithub
    /\ srv["run2"].req.redirect_uri = Absent
    /\ Len(srv["run2"].resp.body.url) = 9

(***************************************************************************)
(* useGitHubAuth: properties                                               *)
(* ghost.login is the token and user of the last handleCallback that       *)
(* resolved true, ghost.phase says whether the page was reloaded since,    *)
(* ghost.verify is what /auth/verify answered to the current page,         *)
(* ghost.rejected says whether /auth/verify, asked about that token since, *)
(* answered anything but valid:true, and                                   *)
(* ghost.logout says whether logout() was the last step ("just") or the    *)
(* page was reloaded right after it ("reloaded").                          *)
(***************************************************************************)
\* C9 (as claimed): after handleCallback resolved true with token T and user
\* U and the page was reloaded, with no logout in between and /auth/verify
\* never answering anything but valid:true for T, the finished mount-time
\* check leaves the hook authenticated with accessToken T and user U.
C9_TokenPersistsAcrossReload ==
    ( /\ ghost.phase = "reloaded"
      /\ page.initPc = "done"
      /\ ~ghost.rejected )
    => /\ isAuthenticated
       /\ hook.accessToken = ValueOf(ghost.login).token
       /\ hook.user = ValueOf(ghost.login).user

\* C10: right after logout() localStorage holds neither key, accessToken and
\* user are null and isAuthenticated is false; a page reloaded right after
\* logout sends no /auth/verify request and stays unauthenticated until a
\* new handleCallback succeeds.
C10_LogoutClears ==
    /\ ghost.logout = "just"
       => /\ storage = EmptyStorage
          /\ hook.accessToken = Null
          /\ hook.user = Absent
          /\ ~isAuthenticated
    /\ ghost.logout = "reloaded"
       => /\ page.initPc = "done"
          /\ ghost.verify = "none"
          /\ ~isAuthenticated

C10_Witness ==
    /\ ghost.logout = "reloaded"
    /\ page.initPc = "done"
    /\ ~hook.isLoading
    /\ storage = EmptyStorage

(***************************************************************************)
(* The first page load finds what localStorage holds: nothing, an earlier  *)
(* session, or a token with a user entry that is no JSON text, such as the *)
(* 'undefined' that setItem(USER, JSON.stringify(undefined)) stores        *)
(***************************************************************************)
UnparsableUser == <<"undefined">>

StoredAtFirstLoad ==
    StoredAtLoad
    \cup {[github_access_token |-> "gho_t1", github_user |-> UnparsableUser]}

InitRestore ==
    /\ env \in Envs
    /\ srv = <<>>
    /\ storage \in StoredAtFirstLoad
    /\ hook = MountHook(storage, Null)
    /\ page = MountPage(storage, Null)
    /\ ghost = NoGhost
    /\ app = FreshApp
    /\ api = NoTraffic

SpecRestore == InitRestore /\ [][NextHook]_vars

(***************************************************************************)
(* The sign-in flow end to end: properties                                 *)
(***************************************************************************)
\* GitHub accepted the code and answered the user lookup with the user
FlowAccepted(h) ==
    /\ h.pc = "done"
    /\ Len(h.replies) = 2
    /\ h.replies[1].kind = "json" /\ ~Truthy(h.replies[1].data.error)
    /\ h.replies[2].kind = "json" /\ h.replies[2].ok

\* the tab got a token from handleCallback only after the server exchanged
\* the code it was sent with GitHub, and it is the token GitHub issued
FlowTokenOnlyAfterExchange ==
    (page.cbPc = "done" /\ ghost.phase = "loggedIn")
    => LET h == srv[Server]
       IN  /\ h.pc = "done"
           /\ h.req.code \in Codes
           /\ Len(h.calls) >= 1 /\ Len(h.replies) >= 1
           /\ h.calls[1] = TokenCall(env.GITHUB_CLIENT_ID, env.GITHUB_CLIENT_SECRET, h.req.code)
           /\ h.replies[1].kind = "json"
           /\ ~Truthy(h.replies[1].data.error)
           /\ ValueOf(ghost.login).token = h.replies[1].data.access_token

\* handleCallback has ended for the code c; if GitHub accepted c and
\* answered the user lookup, the hook holds GitHub's token and user
FlowEnded(c) ==
    LET h == srv[Server]
    IN  /\ page.cbPc = "done"
        /\ h.req.code = c
        /\ FlowAccepted(h)
           => /\ isAuthenticated
              /\ hook.accessToken = h.replies[1].data.access_token
              /\ hook.user # Absent
              /\ \A f \in UserFields : Get(ValueOf(hook.user), f) = h.replies[2].data[f]

\* C11: a page loaded with ?code=c sends c to the auth server, which
\* exchanges it with GitHub; the tab gets a token only after that exchange
\* succeeded; and, every request being answered, handleCallback ends, with
\* the hook authenticated with GitHub's token and user if GitHub accepted c
\* and answered the user lookup.
C11_EndToEnd ==
    /\ []FlowTokenOnlyAfterExchange
    /\ \A c \in Codes :
         (page.cbPc = "exchanging" /\ page.code = c) ~> FlowEnded(c)

C11_Witness ==
    /\ page.cbPc = "done"
    /\ page.storedToken = "gho_t1"
    /\ srv[Server].req.code = "c2"
    /\ FlowAccepted(srv[Server])
    /\ hook.accessToken = "gho_t2"
    /\ ValueOf(hook.user).login = "hubot"

(***************************************************************************)
(* The hook's authentication state: properties                             *)
(***************************************************************************)
\* C12 (as claimed): isAuthenticated is true exactly when accessToken is
\* non-null, and user is non-null exactly when accessToken is non-null.
C12_TokenAndUserTogether ==
    /\ isAuthenticated <=> hook.accessToken # Null
    /\ hook.user # Absent <=> hook.accessToken # Null

(***************************************************************************)
(* App component: properties of the search                                 *)
(***************************************************************************)
\* the issues of the index a query finds
Found(q) == {i \in 1..Len(Index) : Matches(q, Index[i])}

\* the requests of fetchIssues that wait for their response and carry the
\* query of the filters the page shows now
CurrentSearches ==
    {i \in 1..Len(api.pending) :
        api.pending[i].kind = "search/issues" /\ api.pending[i].q = BuildQuery(app)}

\* with two or more labels selected, the query finds what the queries with
\* one of the labels, the other filters unchanged, find together
LabelsOr ==
    Len(app.selectedLabels) >= 2 =>
        \A i \in CurrentSearches :
            Found(api.pending[i].q)
                = UNION {Found(BuildQuery([app EXCEPT !.selectedLabels = <<app.selectedLabels[n]>>])) :
                            n \in 1..Len(app.selectedLabels)}

\* the same with two or more categories selected
CategoriesOr ==
    Len(app.selectedCategories) >= 2 =>
        \A i \in CurrentSearches :
            Found(api.pending[i].q)
                = UNION {Found(BuildQuery([app EXCEPT
                                    !.selectedCategories = <<app.selectedCategories[n]>>])) :
                            n \in 1..Len(app.selectedCategories)}

\* C13: in the query fetchIssues builds, two or more selected labels are
\* alternatives (an issue with any one of them is found), and two or more
\* selected categories are alternatives
C13_MultiSelectOr == LabelsOr /\ CategoriesOr

(***************************************************************************)
(* App component: properties of the star lookups                           *)
(***************************************************************************)
\* how often the star count of the repository was requested
Lookups(traffic, repo) == Cardinality({i \in 1..Len(traffic.stars) : traffic.stars[i] = repo})

\* no repository is looked up twice
LookedUpOnce == \A i, j \in 1..Len(api.stars) : api.stars[i] = api.stars[j] => i = j

\* a repository whose entry in repoStars is set is not looked up again
CachedNotLookedUp ==
    [][\A repo \in DOMAIN app.repoStars : Lookups(api', repo) = Lookups(api, repo)]_vars

\* C14: the star count of a repository is requested at most once, never
\* again once its entry in repoStars is set, and never while a request for
\* it waits for its response
C14_StarsFetchedOnce == []LookedUpOnce /\ CachedNotLookedUp

\* the repositories of the first five issues of the list the page shows
FirstFive ==
    {app.issues[i].repo : i \in {n \in 1..Len(app.issues) : n <= StarFetchLimit}}

OnlyFirstFive == \A i \in 1..Len(api.stars) : api.stars[i] \in FirstFive

\* C15: star counts are requested only for the repositories of the first
\* five issues of the list, at most five requests for one list
C15_AtMostFivePerList == OnlyFirstFive /\ Len(api.stars) <= StarFetchLimit

(***************************************************************************)
(* App component: properties of the Authorization header                   *)
(***************************************************************************)
\* the header a request carries when it is made with the token of the hook
Bearer(accessToken) == IF accessToken # Null THEN <<"Bearer", accessToken>> ELSE <<>>

\* C16: every request to the GitHub API carries 'Bearer <accessToken>' with
\* the token the hook holds when the request is sent, none when the token is
\* null, and never a token logout() dropped
C16_RequestsAuthenticated ==
    [][\A i \in 1..Len(api'.sent) :
          /\ api'.sent[i][2] = Bearer(hook'.accessToken)
          /\ api'.sent[i][2] # <<>> => api'.sent[i][2][2] \notin api'.loggedOut]_vars

C16_Witness ==
    /\ api.loggedOut = {"gho_t2"}
    /\ hook.accessToken = "gho_t1"
    /\ <<"repos", <<"Bearer", "gho_t1">>>> \in {api.sent[i] : i \in 1..Len(api.sent)}
    /\ \E i \in 1..Len(api.pending) :
          /\ api.pending[i].kind = "search/issues"
          /\ api.pending[i].authorization = <<>>

(***************************************************************************)
(* useGitHubAuth with the timer-based login: properties                    *)
(***************************************************************************)
\* between login() and the redirect of its timer the hook is loading
LoadingWhileDelayed == (page.at = "app" /\ page.timers > 0) => hook.isLoading

\* the page is left for GitHub only when a timer of login() fires, the hook
\* loading; login() itself leaves the page where it is
RedirectByTimer ==
    [][/\ (page.at = "app" /\ page'.at = "github") => (page.timers > 0 /\ hook.isLoading)
       /\ page'.timers > page.timers => (page'.at = "app" /\ hook'.isLoading)]_vars

\* C17: the redirect of the timer-based login happens only when the delay
\* timer fires, after login() set isLoading, and isLoading stays true from
\* the call until the redirect
C17_LoadingUntilRedirect == []LoadingWhileDelayed /\ RedirectByTimer

(***************************************************************************)
(* App component: properties of the controls                               *)
(***************************************************************************)
\* C18: while the hook is loading, no sign-in control of the page (header,
\* mobile menu, error panel of the issues tab) can invoke login()
C18_SignInDisabledWhileLoading ==
    hook.isLoading => \A control \in SignInControls : ~SignInEnabled(control)

\* the step is a click in the mobile menu on the control
MobileClick(control) == api'.last = <<"mobile", control>>

SameView(a, b) == a.currentView = b.currentView /\ a.activeTab = b.activeTab

\* C19: a click on a link, on the sign-in button or on the logout button of
\* the mobile menu closes the menu and does to view, tab and auth state what
\* the control of the header does
C19_MobileMenuCloses ==
    [][/\ api'.last[1] = "mobile" => ~app'.mobileMenuOpen
       /\ \A link \in Links :
            MobileClick(link) =>
                /\ SameView(app', NavLinkClick(app, link))
                /\ hook' = hook /\ storage' = storage /\ page' = page
       /\ MobileClick("signin") =>
            /\ SameView(app', app)
            /\ hook' = hook /\ storage' = storage
            /\ page' = [page EXCEPT !.loginPc = "fetching"]
       /\ MobileClick("logout") =>
            /\ SameView(app', app)
            /\ hook' = LogoutHook(hook) /\ storage' = LogoutStorage(storage)
            /\ page' = page]_vars

C19_Witness ==
    /\ api.last = <<"mobile", "explore">>
    /\ ~app.mobileMenuOpen
    /\ app.currentView = "app"
    /\ app.activeTab = "issues"
    /\ app.trendingLoading
    /\ isAuthenticated

(***************************************************************************)
(* App component: properties of the results                                *)
(***************************************************************************)
SearchesPending == {i \in 1..Len(api.pending) : api.pending[i].kind = "search/issues"}

\* with no search waiting and no error shown, the issues tab shows the
\* response to the query of the filters
ResultsCurrent ==
    (app.currentView = "app" /\ app.activeTab = "issues" /\ SearchesPending = {}
        /\ app.error = Null)
    => /\ app.issues = SearchIssues(BuildQuery(app), app.sortBy)
       /\ app.totalCount = Len(SearchIssues(BuildQuery(app), app.sortBy))

\* a change of a filter sends the search for the new filters
RefetchedOnChange ==
    [][Filters(app') # Filters(app)
          => \E i \in 1..Len(api'.sent) :
                /\ api'.sent[i][1] = "search/issues"
                /\ api'.pending[Len(api'.pending)].q = BuildQuery(app')
                /\ api'.pending[Len(api'.pending)].sort = app'.sortBy]_vars

\* C20: the issues are fetched again on every change of a filter, and when
\* no search is in flight the issues and the count shown are the response to
\* the query of the current filters, whatever the order of the responses
C20_ResultsFollowFilters == RefetchedOnChange /\ []ResultsCurrent

====
